---- MODULE Spec2Model ----
(***************************************************************************)
(* Model of opencadd.pipelines.t2fpharm.T2FPharm: the vacancy              *)
(* classification (calculate_vacancy_from_energy) and the buriedness       *)
(* analysis (calculate_buriedness_from_psp_count) over a regular lattice.  *)
(*                                                                         *)
(* Energies, cutoffs, distances and the grid spacing are integers in a     *)
(* common unit.  A boolean array is a record [shape, val]: shape is the    *)
(* numpy shape, val maps a lattice point <<i,j,k>> to the element at       *)
(* [i,j,k] (3 axes) or at [i,j,k,0] (4 axes, trailing axis of length 1).   *)
(* An attribute that was never assigned is Unset (<<>>), an assigned one   *)
(* is <<array>>.                                                           *)
(***************************************************************************)
EXTENDS Integers, Sequences, FiniteSets, TLC

VARIABLES grid, spacing_grid_points, grid_vacancy, grid_buriedness,
          outcome, call, classified, held, par

vars == <<grid, spacing_grid_points, grid_vacancy, grid_buriedness,
          outcome, call, classified, held, par>>

\* ---------------------------------------------------------------- bounds
Nx == 4
Ny == 3
Nz == 3
NumGrids == 2
MaxHeld == 1
NumWorkers == 2

\* ------------------------------------------------------- lattice geometry
Lattice(nx, ny, nz) == (0 .. nx - 1) \X (0 .. ny - 1) \X (0 .. nz - 1)

\* The lattice points of self._grid and its three spatial extents.
Points == DOMAIN grid

Extent(axis) == Cardinality({p[axis] : p \in Points})

Shape3 == <<Extent(1), Extent(2), Extent(3)>>

Unset == <<>>

\* ------------------------------------------------------------ EnergyGrid
\* T2FPharm.__init__: type_probes, then the two fixed channels "e" and "d".
type_probes == <<"A", "C">>

type_energy_grids == type_probes \o <<"e", "d">>

NumChannels == Len(type_energy_grids)

Abs(x) == IF x < 0 THEN -x ELSE x

\* Position of a point relative to the lattice point <<1,1,1>>: 1 the point
\* itself, 2 an axis neighbour, 3 a 2D-diagonal neighbour, 4 a 3D-diagonal
\* neighbour, 5 any point farther away.
PointClass(p) ==
    LET dx == Abs(p[1] - 1)
        dy == Abs(p[2] - 1)
        dz == Abs(p[3] - 1)
    IN  IF dx > 1 \/ dy > 1 \/ dz > 1 THEN 5 ELSE 1 + dx + dy + dz

\* The dense arrays the grid-energy engine may hand over: EnergyTable[g][c]
\* lists the energy of channel c at the points of each class.
EnergyTable ==
    << << <<0, 0, 0, 2, 1>>, <<0, 2, 0, 0, 0>>, <<-1, 0, 1, 1, 0>>, <<1, 1, 0, 0, 0>> >>,
       << <<0, 2, 1, 0, 2>>, <<0, 0, 2, 0, 0>>, <<0, -2, 0, 1, 1>>, <<1, 0, 0, 1, -1>> >>,
       << <<0, 1, 1, 2, 2>>, <<-1, 1, 0, 0, 1>>, <<1, 0, 1, -1, 0>>, <<0, 0, 0, 0, 0>> >> >>

EnergyGrid(g) ==
    [p \in Lattice(Nx, Ny, Nz) |->
        [c \in 1 .. NumChannels |-> EnergyTable[g][c][PointClass(p)]]]

\* ----------------------------------------- calculate_vacancy_from_energy
RECURSIVE SumSeq(_)
SumSeq(s) == IF s = <<>> THEN 0 ELSE Head(s) + SumSeq(Tail(s))

RECURSIVE MaxSeq(_)
MaxSeq(s) ==
    IF Len(s) = 1 THEN s[1]
    ELSE LET m == MaxSeq(Tail(s)) IN IF s[1] > m THEN s[1] ELSE m

RECURSIVE MinSeq(_)
MinSeq(s) ==
    IF Len(s) = 1 THEN s[1]
    ELSE LET m == MinSeq(Tail(s)) IN IF s[1] < m THEN s[1] ELSE m

\* The modes of the table reducing_op.
ReducingModes == {"max", "min", "avg", "sum"}

\* reducing_op[mode](values, axis=-1) at one lattice point, as the exact
\* fraction num/den (np.mean divides the sum by the number of channels).
reducing_op(mode, s) ==
    CASE mode = "max" -> [num |-> MaxSeq(s), den |-> 1]
      [] mode = "min" -> [num |-> MinSeq(s), den |-> 1]
      [] mode = "avg" -> [num |-> SumSeq(s), den |-> Len(s)]
      [] mode = "sum" -> [num |-> SumSeq(s), den |-> 1]

BelowCutoffNonStrict(e, energy_cutoff) == e.num <= energy_cutoff * e.den

BelowCutoffReversed(e, energy_cutoff) == e.num > energy_cutoff * e.den

\* energy_vals < energy_cutoff for one element.
BelowCutoff(e, energy_cutoff) == e.num < energy_cutoff * e.den

Range(s) == {s[i] : i \in 1 .. Len(s)}

NotCalculatedFirst(energy_refs) ==
    LET bad == SelectSeq(energy_refs, LAMBDA n : n \notin Range(type_energy_grids))
    IN  IF bad = <<>> THEN <<>> ELSE <<Head(bad)>>

\* energy_refs[np.isin(energy_refs, self._type_energy_grids, invert=True)]
NotCalculated(energy_refs) ==
    SelectSeq(energy_refs, LAMBDA n : n \notin Range(type_energy_grids))

RECURSIVE MaskedIndices(_, _)
MaskedIndices(c, refs) ==
    IF c > NumChannels THEN <<>>
    ELSE (IF type_energy_grids[c] \in Range(refs) THEN <<c>> ELSE <<>>)
         \o MaskedIndices(c + 1, refs)

\* np.isin(self._type_energy_grids, energy_refs): the indices of the masked
\* channels, in the grid's channel order.
MaskedChannels(energy_refs) == MaskedIndices(1, energy_refs)

\* self._grid[..., mask] at point p: the values of the masked channels.
SubgridRef(g, idx, p) == [n \in 1 .. Len(idx) |-> g[p][idx[n]]]

\* Lines 196-202: the array assigned to self._grid_vacancy.  A subgrid of one
\* channel is compared as it is and keeps its channel axis.
VacancyArray(g, energy_refs, energy_cutoff, mode) ==
    LET idx == MaskedChannels(energy_refs)
    IN  IF Len(idx) = 1
        THEN [shape |-> Shape3 \o <<1>>,
              val |-> [p \in Points |->
                         BelowCutoff([num |-> SubgridRef(g, idx, p)[1], den |-> 1],
                                     energy_cutoff)]]
        ELSE [shape |-> Shape3,
              val |-> [p \in Points |->
                         BelowCutoff(reducing_op(mode, SubgridRef(g, idx, p)),
                                     energy_cutoff)]]

\* The exception, if any, that calculate_vacancy_from_energy raises before
\* it assigns: "mode" (line 184), "not_calculated" (line 190), "KeyError"
\* (reducing_op[mode], line 200), or "none".  is_sequence is the value of
\* isinstance(energy_refs, Sequence): true for a list or a tuple of names,
\* false for a numpy array of names.
VacancyError(is_sequence, energy_refs, mode) ==
    IF is_sequence /\ mode \notin ReducingModes THEN "mode"
    ELSE IF NotCalculated(energy_refs) # <<>> THEN "not_calculated"
    ELSE IF Len(MaskedChannels(energy_refs)) # 1 /\ mode \notin ReducingModes THEN "KeyError"
    ELSE "none"

StoreVacancyMerged(old, new) ==
    IF old = Unset \/ old[1].shape # new.shape THEN <<new>>
    ELSE <<[new EXCEPT !.val = [p \in Points |-> old[1].val[p] \/ new.val[p]]]>>

VacancyOnErrorCleared(old) == Unset

\* Lines 184, 190 and 200 raise before the assignment of line 202 is reached:
\* the attribute is what it was.
VacancyOnError(old) == old

\* Line 202: the assignment rebinds the attribute to the new array.
StoreVacancy(old, new) == <<new>>

ReturnValueNoCopy(of, arr, return_copy) ==
    IF return_copy THEN <<[of |-> of, arr |-> arr, same |-> TRUE]>> ELSE <<>>

\* Lines 203 and 258: `x.copy() if return_copy else None`.  A returned array
\* is [of, arr, same]: `same` tells whether it is the very object the
\* analyzer's attribute `of` is bound to; None is <<>>.
ReturnValue(of, arr, return_copy) ==
    IF return_copy THEN <<[of |-> of, arr |-> arr, same |-> FALSE]>> ELSE <<>>

\* ------------------------------------------------------------ DirectionSet
DirectionsWithNegation(count) ==
    LET axes == << <<1, 0, 0>>, <<0, 1, 0>>, <<0, 0, 1>> >>
        diag3 == << <<1, 1, 1>>, <<1, 1, -1>>, <<1, -1, 1>>, <<-1, -1, -1>> >>
        diag2 == << <<1, 1, 0>>, <<1, -1, 0>>, <<1, 0, 1>>, <<1, 0, -1>>,
                    <<0, 1, 1>>, <<0, 1, -1>> >>
    IN  CASE count = 3 -> axes
          [] count = 7 -> axes \o diag3
          [] count = 13 -> axes \o diag3 \o diag2

Directions(count) ==
    LET axes == << <<1, 0, 0>>, <<0, 1, 0>>, <<0, 0, 1>> >>
        diag3 == << <<1, 1, 1>>, <<1, 1, -1>>, <<1, -1, 1>>, <<1, -1, -1>> >>
        diag2 == << <<1, 1, 0>>, <<1, -1, 0>>, <<1, 0, 1>>, <<1, 0, -1>>,
                    <<0, 1, 1>>, <<0, 1, -1>> >>
    IN  CASE count = 3 -> axes
          [] count = 7 -> axes \o diag3
          [] count = 13 -> axes \o diag3 \o diag2

DirectionCounts == {3, 7, 13}

\* ------------------------------------- count_psp_events_from_vacancy_tensor
InGrid(q) == q \in Points

StepWrapped(p, d, k) ==
    <<(p[1] + k * d[1]) % Shape3[1], (p[2] + k * d[2]) % Shape3[2],
      (p[3] + k * d[3]) % Shape3[3]>>

Step(p, d, k) == <<p[1] + k * d[1], p[2] + k * d[2], p[3] + k * d[3]>>

\* The ray-step limit L = floor(max_distance / spacing).
StepLimit(psp_len_max, spacing) == psp_len_max \div spacing

\* March from p along d (sense +1 or -1) from step k on: a hit is the first
\* visited point that is inside the grid and occupied, within L steps.
RECURSIVE March(_, _, _, _, _, _)
March(v, p, d, sense, k, L) ==
    IF k > L THEN FALSE
    ELSE LET q == Step(p, d, sense * k)
         IN  IF ~InGrid(q) THEN FALSE
             ELSE IF ~v[q] THEN TRUE
             ELSE March(v, p, d, sense, k + 1, L)

PspEvent(v, p, d, L) == March(v, p, d, 1, 1, L) /\ March(v, p, d, -1, 1, L)

\* Number of directions of the set that register a PSP event at p; points
\* that are not vacant are skipped and keep the count 0.
PspCount(v, p, num_directions, L) ==
    IF ~v[p] THEN 0
    ELSE LET ds == Directions(num_directions)
         IN  Cardinality({n \in 1 .. Len(ds) : PspEvent(v, p, ds[n], L)})

count_psp_events_from_vacancy_tensor(vac, spacing, num_directions, psp_len_max) ==
    [p \in Points |->
        PspCount(vac.val, p, num_directions, StepLimit(psp_len_max, spacing))]

\* ------------------------------------ calculate_buriedness_from_psp_count
CountsEqual(counts, psp_count_min) ==
    [shape |-> Shape3, val |-> [p \in Points |-> counts[p] = psp_count_min]]

CountsAbove(counts, psp_count_min) ==
    [shape |-> Shape3, val |-> [p \in Points |-> counts[p] > psp_count_min]]

CountsAtMost(counts, psp_count_min) ==
    [shape |-> Shape3, val |-> [p \in Points |-> counts[p] <= psp_count_min]]

\* Line 257: grid_psp_counts >= psp_count_min.
CountsAtLeast(counts, psp_count_min) ==
    [shape |-> Shape3, val |-> [p \in Points |-> counts[p] >= psp_count_min]]

BuriednessArray(vac, spacing, num_directions, psp_len_max, psp_count_min) ==
    CountsAtLeast(
        count_psp_events_from_vacancy_tensor(vac, spacing, num_directions, psp_len_max),
        psp_count_min)

\* The exception, if any, of calculate_buriedness_from_psp_count: reading
\* self._grid_vacancy (line 252) raises AttributeError when the attribute
\* was never assigned; the count function rejects an unknown direction count.
BuriednessError(vacancy, num_directions) ==
    IF vacancy = Unset THEN "AttributeError"
    ELSE IF num_directions \notin DirectionCounts THEN "InvalidParameter"
    ELSE "none"

\* -------------------------------------------------------------- the caller
\* Rebinding the attribute `of` detaches every array the caller holds from it.
Rebound(h, of) ==
    [n \in 1 .. Len(h) |->
        IF h[n].of = of THEN [h[n] EXCEPT !.same = FALSE] ELSE h[n]]

\* The caller keeps a returned array if it chooses to and holds fewer than
\* MaxHeld of them.
Kept(h, ret, keep) == IF keep /\ Len(h) < MaxHeld THEN h \o ret ELSE h

Flip(arr, p) == [arr EXCEPT !.val[p] = ~@]

NoCall == [op |-> "none"]

NoOutcome == [status |-> "none", error |-> "none", names |-> <<>>, ret |-> <<>>]

\* No tiled analysis is under way.
Idle == [active |-> FALSE]

\* ------------------------------------------------------------------ Init
InitVacancyDefault == <<[shape |-> Shape3, val |-> [p \in Points |-> TRUE]]>>

\* T2FPharm.__init__ (lines 100-119) stores the grid and the spacing; it
\* assigns neither _grid_vacancy nor _grid_buriedness.
InitVacancy == Unset

SpacingChoices == {1, 2}

Init ==
    /\ grid \in {EnergyGrid(g) : g \in 1 .. NumGrids}
    /\ spacing_grid_points \in SpacingChoices
    /\ grid_vacancy = InitVacancy
    /\ grid_buriedness = Unset
    /\ outcome = NoOutcome
    /\ call = NoCall
    /\ classified = NoCall
    /\ held = <<>>
    /\ par = Idle

\* --------------------------------------------------------------- actions
\* call records the arguments of the latest call, classified those of the
\* latest classification that succeeded, outcome what the call raised or
\* returned.
Classify(is_sequence, energy_refs, energy_cutoff, mode, return_copy, keep) ==
    LET err == VacancyError(is_sequence, energy_refs, mode)
        args == [op |-> "classify", is_sequence |-> is_sequence,
                 energy_refs |-> energy_refs, energy_cutoff |-> energy_cutoff,
                 mode |-> mode, return_copy |-> return_copy]
    IN  /\ call' = args
        /\ IF err # "none"
           THEN /\ outcome' = [status |-> "error", error |-> err,
                               names |-> IF err = "not_calculated"
                                         THEN NotCalculated(energy_refs) ELSE <<>>,
                               ret |-> <<>>]
                /\ grid_vacancy' = VacancyOnError(grid_vacancy)
                /\ UNCHANGED <<classified, held>>
           ELSE LET arr == VacancyArray(grid, energy_refs, energy_cutoff, mode)
                    ret == ReturnValue("vacancy", arr, return_copy)
                IN  /\ grid_vacancy' = StoreVacancy(grid_vacancy, arr)
                    /\ classified' = args
                    /\ held' = Kept(Rebound(held, "vacancy"), ret, keep)
                    /\ outcome' = [status |-> "ok", error |-> "none",
                                   names |-> <<>>, ret |-> ret]
        /\ UNCHANGED <<grid, spacing_grid_points, grid_buriedness, par>>

Analyze(num_directions, psp_len_max, psp_count_min, return_copy, keep) ==
    LET err == BuriednessError(grid_vacancy, num_directions)
        args == [op |-> "analyze", num_directions |-> num_directions,
                 psp_len_max |-> psp_len_max, psp_count_min |-> psp_count_min,
                 return_copy |-> return_copy, consumed |-> grid_vacancy]
    IN  /\ call' = args
        /\ IF err # "none"
           THEN /\ outcome' = [status |-> "error", error |-> err,
                               names |-> <<>>, ret |-> <<>>]
                /\ UNCHANGED <<grid_buriedness, held>>
           ELSE LET arr == BuriednessArray(grid_vacancy[1], spacing_grid_points,
                                           num_directions, psp_len_max, psp_count_min)
                    ret == ReturnValue("buriedness", arr, return_copy)
                IN  /\ grid_buriedness' = <<arr>>
                    /\ held' = Kept(Rebound(held, "buriedness"), ret, keep)
                    /\ outcome' = [status |-> "ok", error |-> "none",
                                   names |-> <<>>, ret |-> ret]
        /\ UNCHANGED <<grid, spacing_grid_points, grid_vacancy, classified, par>>

\* The caller writes one element of an array it was handed.  The write goes
\* to the object: an attribute bound to the same object shows it too.
CallerWrite(n, p) ==
    /\ n \in 1 .. Len(held)
    /\ LET h == held[n]
           shared(m) == h.same /\ held[m].same /\ held[m].of = h.of
       IN  /\ held' = [m \in 1 .. Len(held) |->
                          IF m = n \/ shared(m)
                          THEN [held[m] EXCEPT !.arr = Flip(@, p)] ELSE held[m]]
           /\ grid_vacancy' = IF h.same /\ h.of = "vacancy"
                              THEN <<Flip(grid_vacancy[1], p)>> ELSE grid_vacancy
           /\ grid_buriedness' = IF h.same /\ h.of = "buriedness"
                                 THEN <<Flip(grid_buriedness[1], p)>> ELSE grid_buriedness
    /\ call' = [op |-> "write", n |-> n, p |-> p]
    /\ outcome' = NoOutcome
    /\ UNCHANGED <<grid, spacing_grid_points, classified, par>>

\* ------------------------------------------- the classification in detail
RefChoices ==
    { <<"A">>, <<"A", "C">>, <<"C", "e", "d">>, <<"e", "A">>,
      <<"X">>, <<"Y", "C", "X">> }

CutoffChoices == {1, 2}

ModeChoices == ReducingModes \cup {"mean"}

ClassifyCall ==
    \E is_sequence \in BOOLEAN, energy_refs \in RefChoices,
       energy_cutoff \in CutoffChoices, mode \in ModeChoices :
        Classify(is_sequence, energy_refs, energy_cutoff, mode, FALSE, FALSE)

NextClassify == ClassifyCall

InitClassify == Init /\ spacing_grid_points = 2

SpecClassify == InitClassify /\ [][NextClassify]_vars

\* ------------------------------------------------- the analysis in detail
DirectionChoices == {3, 7, 13, 5}

LenChoices == {1, 2, 4}

CountChoices == {0, 1, 3}

ClassifyFew ==
    \E energy_refs \in {<<"A">>, <<"A", "C">>, <<"A", "X">>}, energy_cutoff \in {1, 2} :
        Classify(TRUE, energy_refs, energy_cutoff, "sum", FALSE, FALSE)

AnalyzeCall ==
    \E num_directions \in DirectionChoices, psp_len_max \in LenChoices,
       psp_count_min \in CountChoices :
        Analyze(num_directions, psp_len_max, psp_count_min, FALSE, FALSE)

Next == ClassifyFew \/ AnalyzeCall

Spec == Init /\ [][Next]_vars

\* --------------------------------------------- returned arrays in detail
WritePoints == {<<1, 1, 1>>, <<0, 0, 0>>}

ClassifyKeep ==
    \E energy_refs \in {<<"A">>, <<"A", "C">>}, energy_cutoff \in {1, 2},
       return_copy \in BOOLEAN, keep \in BOOLEAN :
        Classify(TRUE, energy_refs, energy_cutoff, "max", return_copy, keep)

AnalyzeKeep ==
    \E num_directions \in {3, 13}, psp_count_min \in {0, 1},
       return_copy \in BOOLEAN, keep \in BOOLEAN :
        Analyze(num_directions, 4, psp_count_min, return_copy, keep)

CallerWriteAny ==
    \E n \in 1 .. MaxHeld, p \in WritePoints : CallerWrite(n, p)

NextCaller == ClassifyKeep \/ AnalyzeKeep \/ CallerWriteAny

InitCaller == Init /\ spacing_grid_points = 2 /\ grid = EnergyGrid(1)

SpecCaller == InitCaller /\ [][NextCaller]_vars

\* ------------------------------------------------------ the caller's view
\* The energy of one named channel at a point, read off the grid.
EnergyAt(name, p) ==
    grid[p][CHOOSE c \in 1 .. NumChannels : type_energy_grids[c] = name]

RECURSIVE EnergySum(_, _)
EnergySum(names, p) ==
    IF names = {} THEN 0
    ELSE LET n == CHOOSE m \in names : TRUE
         IN  EnergyAt(n, p) + EnergySum(names \ {n}, p)

\* The reduction of the named channels at p is strictly below the cutoff.
ReducedBelow(names, energy_cutoff, mode, p) ==
    CASE mode = "max" -> \A n \in names : EnergyAt(n, p) < energy_cutoff
      [] mode = "min" -> \E n \in names : EnergyAt(n, p) < energy_cutoff
      [] mode = "sum" -> EnergySum(names, p) < energy_cutoff
      [] mode = "avg" -> EnergySum(names, p) < energy_cutoff * Cardinality(names)

ReducedEqual(names, energy_cutoff, mode, p) ==
    CASE mode = "max" -> /\ \A n \in names : EnergyAt(n, p) <= energy_cutoff
                         /\ \E n \in names : EnergyAt(n, p) = energy_cutoff
      [] mode = "min" -> /\ \A n \in names : EnergyAt(n, p) >= energy_cutoff
                         /\ \E n \in names : EnergyAt(n, p) = energy_cutoff
      [] mode = "sum" -> EnergySum(names, p) = energy_cutoff
      [] mode = "avg" -> EnergySum(names, p) = energy_cutoff * Cardinality(names)

Known(names) == names \subseteq Range(type_energy_grids)

Distinct(s) == Cardinality(Range(s)) = Len(s)

ClassifyDone == call.op = "classify" /\ outcome.status = "ok"

AnalyzeDone == call.op = "analyze" /\ outcome.status = "ok"

\* C1 (as claimed): whatever min_events is, zero included, the buriedness
\* volume an analysis produced is true only at points where the vacancy
\* volume it consumed is true.
C1_Containment ==
    AnalyzeDone =>
        \A p \in Points : grid_buriedness[1].val[p] => call.consumed[1].val[p]

\* C2 (as claimed): the vacancy volume and the buriedness volume have exactly
\* the three spatial axes of the energy grid, also for a single channel.
C2_Shape ==
    /\ grid_vacancy # Unset => grid_vacancy[1].shape = <<Nx, Ny, Nz>>
    /\ grid_buriedness # Unset => grid_buriedness[1].shape = <<Nx, Ny, Nz>>

\* C3: after a classification over two or more distinct known channels with
\* one of the four reductions, a point is vacant iff the reduction of exactly
\* the named channels' energies at that point is strictly below the cutoff.
C3_SeveralChannels ==
    ( /\ ClassifyDone
      /\ Len(call.energy_refs) >= 2
      /\ Distinct(call.energy_refs)
      /\ Known(Range(call.energy_refs))
      /\ call.mode \in ReducingModes )
    => \A p \in Points :
          grid_vacancy[1].val[p]
            <=> ReducedBelow(Range(call.energy_refs), call.energy_cutoff, call.mode, p)

C3_Witness ==
    /\ ClassifyDone
    /\ Len(call.energy_refs) >= 3
    /\ call.mode = "avg"
    /\ \E p \in Points :
          /\ ReducedEqual(Range(call.energy_refs), call.energy_cutoff, call.mode, p)
          /\ ~grid_vacancy[1].val[p]
    /\ \E p \in Points : grid_vacancy[1].val[p]

\* C4 (as claimed): a classification over exactly one known channel succeeds
\* whatever the reduction argument is, and a point is vacant iff that
\* channel's energy at the point is strictly below the cutoff.
C4_SingleChannel ==
    ( /\ call.op = "classify"
      /\ Len(call.energy_refs) = 1
      /\ Known(Range(call.energy_refs)) )
    => /\ outcome.status = "ok"
       /\ \A p \in Points :
             grid_vacancy[1].val[p]
               <=> EnergyAt(call.energy_refs[1], p) < call.energy_cutoff

C4_Witness ==
    /\ ClassifyDone
    /\ Len(call.energy_refs) = 1
    /\ \E p \in Points : grid_vacancy[1].val[p]
    /\ \E p \in Points : ~grid_vacancy[1].val[p]

\* The names the specification gives to the failures of the code.
PrecomputedStateMissingError == "AttributeError"

UnknownChannelError == "not_calculated"

\* C5: an analysis requested while no classification has succeeded fails
\* with the missing-state error, returns nothing and stores no buriedness
\* volume; after a successful classification an analysis with a valid
\* direction count succeeds.
C5_CallOrdering ==
    call.op = "analyze" =>
        IF classified = NoCall
        THEN /\ outcome.status = "error"
             /\ outcome.error = PrecomputedStateMissingError
             /\ outcome.ret = <<>>
             /\ grid_buriedness = Unset
        ELSE call.num_directions \in DirectionCounts =>
                /\ outcome.status = "ok"
                /\ grid_buriedness # Unset

C5_Witness ==
    /\ call.op = "analyze"
    /\ classified = NoCall
    /\ call.num_directions \in DirectionCounts
    /\ outcome.error = PrecomputedStateMissingError

UnknownNames(energy_refs) == Range(energy_refs) \ Range(type_energy_grids)

VacantBy(args, p) ==
    IF Cardinality(Range(args.energy_refs)) = 1
    THEN EnergyAt(args.energy_refs[1], p) < args.energy_cutoff
    ELSE ReducedBelow(Range(args.energy_refs), args.energy_cutoff, args.mode, p)

\* C7: the current vacancy is exactly the result of the latest successful
\* classification, an analysis consumes that volume, and the analysis leaves
\* it as it was.
C7_CurrentVacancy ==
    /\ classified # NoCall =>
          /\ grid_vacancy # Unset
          /\ \A p \in Points : grid_vacancy[1].val[p] <=> VacantBy(classified, p)
    /\ call.op = "analyze" => call.consumed = grid_vacancy

C7_Witness ==
    /\ AnalyzeDone
    /\ classified.energy_cutoff = 1
    /\ \E p \in Points :
          /\ ~grid_vacancy[1].val[p]
          /\ VacantBy([classified EXCEPT !.energy_cutoff = 2], p)

\* C8: arrays handed to the caller keep their value through every later
\* classification and analysis, and a write by the caller to such an array
\* changes neither the current vacancy nor the stored buriedness.
C8_Isolation ==
    [][ /\ call'.op \in {"classify", "analyze"} =>
              \A n \in 1 .. Len(held) : held'[n].arr = held[n].arr
        /\ call'.op = "write" =>
              /\ grid_vacancy' = grid_vacancy
              /\ grid_buriedness' = grid_buriedness ]_vars

C8_Witness ==
    /\ call.op = "write"
    /\ held[1].of = "buriedness"
    /\ grid_buriedness # Unset
    /\ held[1].arr # grid_buriedness[1]
    /\ classified # NoCall
    /\ \E p \in Points : grid_vacancy[1].val[p] /\ ~VacantBy([classified EXCEPT !.energy_cutoff = 1], p)

\* C9: two analyses of the same vacancy volume with the same max_distance
\* and min_events: the points buried with the smaller direction count are
\* buried with the larger one.
C9_DirectionMonotonicity ==
    [][ ( /\ call.op = "analyze" /\ outcome.status = "ok"
          /\ call'.op = "analyze" /\ outcome'.status = "ok"
          /\ call'.consumed = call.consumed
          /\ call'.psp_len_max = call.psp_len_max
          /\ call'.psp_count_min = call.psp_count_min
          /\ call.num_directions <= call'.num_directions )
        => \A p \in Points :
              grid_buriedness[1].val[p] => grid_buriedness'[1].val[p] ]_vars

BuriedWith(num_directions) ==
    BuriednessArray(call.consumed[1], spacing_grid_points, num_directions,
                    call.psp_len_max, call.psp_count_min).val

C9_Witness ==
    /\ AnalyzeDone
    /\ call.num_directions = 13
    /\ \E p \in Points : grid_buriedness[1].val[p] /\ ~BuriedWith(7)[p]
    /\ \E p \in Points : BuriedWith(7)[p] /\ ~BuriedWith(3)[p]

\* C10: two classifications with the same channels and the same reduction:
\* the points vacant under the smaller cutoff are vacant under the larger.
C10_CutoffMonotonicity ==
    [][ ( /\ call.op = "classify" /\ outcome.status = "ok"
          /\ call'.op = "classify" /\ outcome'.status = "ok"
          /\ call'.energy_refs = call.energy_refs
          /\ call'.mode = call.mode
          /\ call.energy_cutoff <= call'.energy_cutoff )
        => \A p \in Points :
              grid_vacancy[1].val[p] => grid_vacancy'[1].val[p] ]_vars

C10_Witness ==
    /\ ClassifyDone
    /\ call.energy_cutoff = 2
    /\ Len(call.energy_refs) >= 2
    /\ \E p \in Points :
          grid_vacancy[1].val[p] /\ ~VacantBy([call EXCEPT !.energy_cutoff = 1], p)
    /\ \E p \in Points : ~grid_vacancy[1].val[p]

\* ------------------------------------------------- hand-made energy grids
\* A grid of the given extents whose first channel is 2 at the points of
\* `high` and 0 elsewhere; the other channels are 0.  In the unit 0.5 this is
\* a probe energy of 1.0 at the points of `high` and 0.0 elsewhere.
ProbeGrid(nx, ny, nz, high) ==
    [p \in Lattice(nx, ny, nz) |->
        [c \in 1 .. NumChannels |-> IF c = 1 /\ p \in high THEN 2 ELSE 0]]

\* 3x3x3, occupied at the two opposite face centres along x.
FaceCentreGrid == ProbeGrid(3, 3, 3, {<<0, 1, 1>>, <<2, 1, 1>>})

\* 4x3x3, occupied at <<0,1,1>> and <<3,1,1>>: from <<1,1,1>> the occupied
\* cells along x are one step back and two steps ahead.
UnevenGrid == ProbeGrid(4, 3, 3, {<<0, 1, 1>>, <<3, 1, 1>>})

ScenarioGrids == {FaceCentreGrid, UnevenGrid}

InitScenario ==
    /\ grid \in ScenarioGrids
    /\ spacing_grid_points = 2
    /\ grid_vacancy = InitVacancy
    /\ grid_buriedness = Unset
    /\ outcome = NoOutcome
    /\ call = NoCall
    /\ classified = NoCall
    /\ held = <<>>
    /\ par = Idle

ClassifyScenario ==
    \E energy_refs \in {<<"A">>, <<"A", "C">>, <<"A", "X">>},
       energy_cutoff \in {1, 3}, mode \in {"sum", "mean"} :
        Classify(TRUE, energy_refs, energy_cutoff, mode, FALSE, FALSE)

AnalyzeScenario ==
    \E num_directions \in DirectionCounts, psp_len_max \in {2, 4, 8},
       psp_count_min \in {1, 2} :
        Analyze(num_directions, psp_len_max, psp_count_min, FALSE, FALSE)

NextScenario == ClassifyScenario \/ AnalyzeScenario

SpecScenario == InitScenario /\ [][NextScenario]_vars

\* C11: on the 3x3x3 grid with spacing 1.0 whose probe channel is 1.0 at
\* <<0,1,1>> and <<2,1,1>> and 0.0 elsewhere, classifying that channel with
\* cutoff 0.5 leaves exactly those two points non-vacant and the other 25
\* vacant; the analysis with 3 directions, max_distance 2.0 and min_events 1
\* then marks <<1,1,1>> buried and no other point.
C11_Scenario ==
    ( /\ grid = FaceCentreGrid
      /\ classified # NoCall
      /\ classified.energy_refs = <<"A">>
      /\ classified.energy_cutoff = 1 )
    => /\ {p \in Points : ~grid_vacancy[1].val[p]} = {<<0, 1, 1>>, <<2, 1, 1>>}
       /\ Cardinality({p \in Points : grid_vacancy[1].val[p]}) = 25
       /\ ( /\ AnalyzeDone
            /\ call.num_directions = 3
            /\ call.psp_len_max = 4
            /\ call.psp_count_min = 1 )
          => {p \in Points : grid_buriedness[1].val[p]} = {<<1, 1, 1>>}

C11_Witness ==
    /\ grid = FaceCentreGrid
    /\ spacing_grid_points = 2
    /\ classified # NoCall
    /\ classified.energy_refs = <<"A">>
    /\ classified.energy_cutoff = 1
    /\ AnalyzeDone
    /\ call.num_directions = 3
    /\ call.psp_len_max = 4
    /\ call.psp_count_min = 1
    /\ grid_buriedness[1].val[<<1, 1, 1>>]

InvalidParameterError == "InvalidParameter"

Negated(d) == <<-d[1], -d[2], -d[3]>>

\* No zero vector, no repeated vector, no vector that negates another.
WellFormedDirections(ds) ==
    /\ \A n \in 1 .. Len(ds) : ds[n] # <<0, 0, 0>>
    /\ \A n, m \in 1 .. Len(ds) : n # m => ds[n] # ds[m]
    /\ \A n, m \in 1 .. Len(ds) : ds[n] # Negated(ds[m])

AxisDirections == << <<1, 0, 0>>, <<0, 1, 0>>, <<0, 0, 1>> >>

SpaceDiagonals == << <<1, 1, 1>>, <<1, 1, -1>>, <<1, -1, 1>>, <<1, -1, -1>> >>

FaceDiagonals ==
    << <<1, 1, 0>>, <<1, -1, 0>>, <<1, 0, 1>>, <<1, 0, -1>>, <<0, 1, 1>>, <<0, 1, -1>> >>

\* C12: an analysis with direction count 3, 7 or 13 uses exactly the listed
\* vectors in the listed order, a list free of zero vectors, repetitions and
\* mutual negations; an analysis with any other count fails with the
\* invalid-parameter error.
C12_DirectionSets ==
    (call.op = "analyze" /\ call.consumed # Unset) =>
        IF call.num_directions \in {3, 7, 13}
        THEN /\ outcome.status = "ok"
             /\ WellFormedDirections(Directions(call.num_directions))
             /\ Directions(call.num_directions) =
                   CASE call.num_directions = 3 -> AxisDirections
                     [] call.num_directions = 7 -> AxisDirections \o SpaceDiagonals
                     [] call.num_directions = 13 ->
                           AxisDirections \o SpaceDiagonals \o FaceDiagonals
        ELSE /\ outcome.status = "error"
             /\ outcome.error = InvalidParameterError
             /\ outcome.ret = <<>>

C12_Witness ==
    /\ call.op = "analyze"
    /\ call.consumed # Unset
    /\ call.num_directions \notin {3, 7, 13}
    /\ outcome.error = InvalidParameterError

\* ------------------------------------------------- the analysis in tiles
\* The lattice points in index order.
PointSeq ==
    LET ny == Shape3[2]
        nz == Shape3[3]
    IN  [n \in 1 .. Cardinality(Points) |->
            <<(n - 1) \div (ny * nz), ((n - 1) \div nz) % ny, (n - 1) % nz>>]

Tilings == {"slabs", "layers", "checkered"}

\* The worker that processes point p under a tiling.
Owner(tiling, p) ==
    CASE tiling = "slabs" -> 1 + (p[1] % NumWorkers)
      [] tiling = "layers" -> 1 + (p[3] % NumWorkers)
      [] tiling = "checkered" -> 1 + ((p[1] + p[2] + p[3]) % NumWorkers)

Tile(tiling, w) == SelectSeq(PointSeq, LAMBDA p : Owner(tiling, p) = w)

WorkerCountShared(pr, vac, p) ==
    PspCount(vac.val, p, pr.num_directions,
             StepLimit(pr.psp_len_max, spacing_grid_points))
    + Cardinality({q \in Points : q[1] = p[1] + 1 /\ q[2] = p[2] /\ q[3] = p[3]
                                  /\ pr.counts[q] > 0})

\* The count one worker computes for one point: it reads the vacancy volume
\* and nothing any worker has written.
WorkerCount(pr, vac, p) ==
    PspCount(vac.val, p, pr.num_directions,
             StepLimit(pr.psp_len_max, spacing_grid_points))

\* The analysis starts: the lattice is split into one tile per worker.
ParallelStart(tiling, num_directions, psp_len_max, psp_count_min) ==
    /\ ~par.active
    /\ BuriednessError(grid_vacancy, num_directions) = "none"
    /\ par' = [active |-> TRUE, num_directions |-> num_directions,
               psp_len_max |-> psp_len_max, psp_count_min |-> psp_count_min,
               tiles |-> [w \in 1 .. NumWorkers |-> Tile(tiling, w)],
               next |-> [w \in 1 .. NumWorkers |-> 1],
               counts |-> [p \in Points |-> 0]]
    /\ call' = [op |-> "analyze", num_directions |-> num_directions,
                psp_len_max |-> psp_len_max, psp_count_min |-> psp_count_min,
                return_copy |-> FALSE, consumed |-> grid_vacancy, tiling |-> tiling]
    /\ outcome' = [status |-> "running", error |-> "none", names |-> <<>>, ret |-> <<>>]
    /\ UNCHANGED <<grid, spacing_grid_points, grid_vacancy, grid_buriedness,
                   classified, held>>

\* Worker w processes the next point of its tile.
WorkerStep(w) ==
    /\ par.active
    /\ par.next[w] <= Len(par.tiles[w])
    /\ LET p == par.tiles[w][par.next[w]]
       IN  par' = [par EXCEPT !.next[w] = @ + 1,
                              !.counts[p] = WorkerCount(par, grid_vacancy[1], p)]
    /\ UNCHANGED <<grid, spacing_grid_points, grid_vacancy, grid_buriedness,
                   outcome, call, classified, held>>

\* All tiles are done: the counts are collected and thresholded (line 257).
Collect ==
    /\ par.active
    /\ \A w \in 1 .. NumWorkers : par.next[w] > Len(par.tiles[w])
    /\ grid_buriedness' = <<CountsAtLeast(par.counts, par.psp_count_min)>>
    /\ par' = Idle
    /\ outcome' = [status |-> "ok", error |-> "none", names |-> <<>>, ret |-> <<>>]
    /\ UNCHANGED <<grid, spacing_grid_points, grid_vacancy, call, classified, held>>

ClassifyIdle ==
    /\ ~par.active
    /\ \E energy_cutoff \in {1, 2} :
          Classify(TRUE, <<"A">>, energy_cutoff, "sum", FALSE, FALSE)

ParallelCall ==
    \E tiling \in Tilings, psp_count_min \in {1, 2} :
        ParallelStart(tiling, 13, 4, psp_count_min)

WorkerRun == \E w \in 1 .. NumWorkers : WorkerStep(w)

NextParallel == ClassifyIdle \/ ParallelCall \/ WorkerRun \/ Collect

InitParallel == Init /\ grid = EnergyGrid(1) /\ spacing_grid_points = 2

SpecParallel == InitParallel /\ [][NextParallel]_vars

\* The buriedness volume of one sequential pass over the consumed vacancy.
SequentialBuriedness ==
    BuriednessArray(call.consumed[1], spacing_grid_points, call.num_directions,
                    call.psp_len_max, call.psp_count_min)

Inside(q) ==
    /\ 0 <= q[1] /\ q[1] < Shape3[1]
    /\ 0 <= q[2] /\ q[2] < Shape3[2]
    /\ 0 <= q[3] /\ q[3] < Shape3[3]

Along(p, d, sense, k) ==
    <<p[1] + sense * k * d[1], p[2] + sense * k * d[2], p[3] + sense * k * d[3]>>

\* There is a step k <= L at which the ray from p meets an occupied point
\* inside the grid, all earlier steps being inside the grid and vacant.
HitWithin(v, p, d, sense, L) ==
    \E k \in 1 .. L :
        /\ Inside(Along(p, d, sense, k))
        /\ ~v[Along(p, d, sense, k)]
        /\ \A j \in 1 .. k - 1 :
              Inside(Along(p, d, sense, j)) /\ v[Along(p, d, sense, j)]

EventDirections(v, p, num_directions, L) ==
    {d \in Range(Directions(num_directions)) :
        HitWithin(v, p, d, 1, L) /\ HitWithin(v, p, d, -1, L)}

StepsOf(psp_len_max) == psp_len_max \div spacing_grid_points

\* C14: after an analysis, a vacant point is buried iff at least min_events
\* directions of the requested set have a hit in both senses, a hit being an
\* occupied point met inside the grid within floor(max_distance / spacing)
\* steps after vacant points only.
C14_CountingRule ==
    AnalyzeDone =>
        \A p \in Points :
            call.consumed[1].val[p] =>
                ( grid_buriedness[1].val[p]
                  <=> Cardinality(EventDirections(call.consumed[1].val, p,
                                                  call.num_directions,
                                                  StepsOf(call.psp_len_max)))
                        >= call.psp_count_min )

\* The hits of <<1,1,1>> along x lie one step back and two steps ahead, past
\* a vacant point; with one step less in range there is no event.
C14_Witness ==
    /\ grid = UnevenGrid
    /\ AnalyzeDone
    /\ call.psp_count_min = 1
    /\ StepsOf(call.psp_len_max) = 2
    /\ call.consumed[1].val[<<1, 1, 1>>]
    /\ call.consumed[1].val[<<2, 1, 1>>]
    /\ ~call.consumed[1].val[<<3, 1, 1>>]
    /\ ~call.consumed[1].val[<<0, 1, 1>>]
    /\ grid_buriedness[1].val[<<1, 1, 1>>]
    /\ EventDirections(call.consumed[1].val, <<1, 1, 1>>, call.num_directions, 1) = {}

\* C15 (as claimed): when max_distance is smaller than one grid spacing, an
\* analysis with a valid direction count raises nothing and, whatever
\* min_events >= 0 is, marks no point buried.
C15_DegenerateRange ==
    ( /\ call.op = "analyze"
      /\ call.consumed # Unset
      /\ call.num_directions \in DirectionCounts
      /\ StepsOf(call.psp_len_max) < 1 )
    => /\ outcome.status = "ok"
       /\ \A p \in Points : ~grid_buriedness[1].val[p]

\* C15 (amended): the same for min_events >= 1.
C15_DegenerateRangeAmended ==
    ( /\ call.op = "analyze"
      /\ call.consumed # Unset
      /\ call.num_directions \in DirectionCounts
      /\ StepsOf(call.psp_len_max) < 1
      /\ call.psp_count_min >= 1 )
    => /\ outcome.status = "ok"
       /\ \A p \in Points : ~grid_buriedness[1].val[p]

C15_Witness ==
    /\ AnalyzeDone
    /\ StepsOf(call.psp_len_max) < 1
    /\ call.psp_count_min = 1
    /\ \E p \in Points :
          /\ call.consumed[1].val[p]
          /\ ~grid_buriedness[1].val[p]
          /\ EventDirections(call.consumed[1].val, p, call.num_directions, 1) # {}

\* Some point of the ray from p is inside the grid and occupied.
OccupiedAhead(v, p, d, sense) ==
    \E k \in 1 .. Shape3[1] + Shape3[2] + Shape3[3] :
        Inside(Along(p, d, sense, k)) /\ ~v[Along(p, d, sense, k)]

\* C16: a direction counts for a vacant point only if the rays of both
\* senses meet an occupied point inside the grid, however large max_distance
\* is: a buried vacant point has at least min_events such directions.
C16_GridBoundary ==
    AnalyzeDone =>
        \A p \in Points :
            (call.consumed[1].val[p] /\ grid_buriedness[1].val[p]) =>
                Cardinality({d \in Range(Directions(call.num_directions)) :
                                /\ OccupiedAhead(call.consumed[1].val, p, d, 1)
                                /\ OccupiedAhead(call.consumed[1].val, p, d, -1)})
                    >= call.psp_count_min

\* From <<1,0,1>> the ray along <<-1,1,0>> meets the occupied <<0,1,1>>, the
\* opposite ray leaves the grid at its first step; the range exceeds the grid.
C16_Witness ==
    /\ grid = FaceCentreGrid
    /\ AnalyzeDone
    /\ call.num_directions = 13
    /\ call.psp_count_min = 1
    /\ StepsOf(call.psp_len_max) > 3
    /\ call.consumed[1].val[<<1, 0, 1>>]
    /\ ~call.consumed[1].val[<<0, 1, 1>>]
    /\ ~Inside(Along(<<1, 0, 1>>, <<1, -1, 0>>, 1, 1))
    /\ ~grid_buriedness[1].val[<<1, 0, 1>>]

\* C17: a classification that fails, on an unknown channel or on an
\* unrecognized mode, changes neither the current vacancy nor the stored
\* buriedness, and the analysis called next does what it does without the
\* failed call: it fails for want of a vacancy if none was classified, and
\* otherwise analyses the vacancy of the latest successful classification.
C17_FailedClassification ==
    [][ /\ (call'.op = "classify" /\ outcome'.status = "error") =>
              /\ grid_vacancy' = grid_vacancy
              /\ grid_buriedness' = grid_buriedness
        /\ ( /\ call.op = "classify" /\ outcome.status = "error"
             /\ call'.op = "analyze" ) =>
              IF classified = NoCall
              THEN /\ outcome'.error = PrecomputedStateMissingError
                   /\ grid_buriedness' = grid_buriedness
              ELSE /\ outcome'.status = "ok"
                   /\ grid_buriedness'[1].val =
                         BuriednessArray([val |-> [p \in Points |-> VacantBy(classified, p)]],
                                         spacing_grid_points, call'.num_directions,
                                         call'.psp_len_max, call'.psp_count_min).val ]_vars

C17_Witness ==
    /\ call.op = "classify"
    /\ outcome.error = "mode"
    /\ Len(call.energy_refs) >= 2
    /\ classified # NoCall
    /\ classified.energy_cutoff # call.energy_cutoff
    /\ grid_buriedness # Unset
    /\ \E p \in Points : grid_buriedness[1].val[p]

====
